---- MODULE Spec2Model ----
(***************************************************************************)
(* whale-knowledge: retrieval and grounded-generation pipeline.            *)
(*                                                                         *)
(* Spec         one generation job of ContentGeneratorService and document *)
(*              deletion over a filled store, with a failure possible at   *)
(*              every external call and database commit.                   *)
(* IngestSpec   document ingestion alone (DocumentService) from an empty   *)
(*              store, with a failure possible at every external call and  *)
(*              database commit.                                           *)
(* PipelineSpec ingestion, deletion and a generation job interleaved, the  *)
(*              generation job free of failures.                           *)
(* ChunkSpec    TextChunker._chunk_fixed_size, one loop iteration per      *)
(*              step.                                                      *)
(* ReingestSpec ingestion, and process_pdf / process_url on content whose  *)
(*              hash a stored row has.                                     *)
(* VectorIdSpec a vector id built by _process_and_embed and parsed back.   *)
(* QuerySpec    RetrievalService.query on a response of the vector index.  *)
(* SuggestSpec  DocumentSelectorService.suggest_documents.                 *)
(* ContextSpec  DocumentSelectorService.get_document_context.              *)
(* ValidateSpec DocumentSelectorService.validate_document_ids.             *)
(* StreamSpec   the progress stream of GET /jobs/{job_id}/stream, one poll *)
(*              per step.                                                  *)
(* RaceSpec     two ingestion requests with the same content, interleaved  *)
(*              at the awaits of process_url.                              *)
(* ProgressSpec the progress written by the section loop of                *)
(*              _generate_content.                                         *)
(* StrategySpec TextChunker.chunk_text with each of its three strategies.  *)
(***************************************************************************)
EXTENDS Integers, Sequences, FiniteSets, TLC

VARIABLES
    documents,   \* relational store: documents table, by Document.id
    index,       \* vector index: per document_id, the chunk numbers of its vectors
    ing,         \* per document: the ingestion request working on it
    del,         \* per document: the delete_document request working on it
    job,         \* relational store: the generation_jobs row of the job
    task,        \* the background task _run_generation: position and locals
    contents,    \* relational store: generated_content rows
    links,       \* relational store: generation_source_documents rows
    templates,   \* relational store: content_templates (section count per template)
    lastStart,   \* outcome of the last start_generation call
    ghost,       \* history: faults injected, exceptions raised
    chunker,     \* a TextChunker, its input text and the locals of _chunk_fixed_size
    pages,       \* Confluence: the pages created through the MCP client
    call,        \* the last call of a read-only service function: arguments, result
    stream       \* the progress stream of a job: position, polls made, events sent

vars == <<documents, index, ing, del, job, task, contents, links, templates,
          lastStart, ghost, chunker, pages, call, stream>>

docVars == <<documents, index, ing, del>>
genVars == <<job, task, contents, links, lastStart>>
svcVars == <<pages, call, stream>>

----------------------------------------------------------------------------
(* Bounds of the model *)

\* most sections a template has
MaxSections == 2

\* longest text handed to the chunker
MaxLen == 5

\* largest chunk_size / chunk_overlap argument handed to TextChunker
MaxChunkArg == 3

\* largest document id and chunk number a vector id is built for
MaxDocumentId == 12
MaxChunkIdx == 11

\* most matches in a response of the vector index
MaxMatches == 3
MaxDocuments == 2
MaxChunksPerDoc == 2
MaxIds == 2
MaxTotalSections == 15
MaxSentenceLen == 6
MaxParagraphLen == 7

\* document ids of the documents table
DocIds == {1, 2}

----------------------------------------------------------------------------
(* Program constants *)

\* settings.chunk_size
DefaultChunkSize == 512

\* settings.chunk_overlap
DefaultChunkOverlap == 50

\* the lookback window of the word-boundary search, text.rfind(' ', end - 50, end)
LookBack == 50

\* upsert_vectors(batch_size=100)
BatchSize == 100
MaxPolls == 300

\* Python None for an Optional[int] / Optional[str] argument
None == "None"

----------------------------------------------------------------------------
(* Relational store and vector index: data *)

\* a Document row; status "absent" is an id never inserted, "deleted" a deleted row
NoDocument ==
    [status |-> "absent", chunk_count |-> 0, vector_ids |-> {}, error_message |-> FALSE]

\* Document(..., status="processing"): chunk_count default 0, vector_ids NULL
NewDocument == [NoDocument EXCEPT !.status = "processing"]

DocExists(d) == documents[d].status \notin {"absent", "deleted"}

\* vectors found in the index for ids that the documents table hands out later
\* (the index outlives a reset of the relational store)
StaleSets == {{}, {0, 1}}

\* numbers of chunks chunk_text returns for the texts ingested
NChunks == {0, 1, BatchSize + 1}

\* min, as in vectors[i : i + batch_size]
Min(a, b) == IF a < b THEN a ELSE b

IdleIngest ==
    [pc |-> "idle", kind |-> "pdf", skip_existing |-> TRUE, existing |-> {},
     n |-> 0, sent |-> 0, unbound |-> FALSE]

\* the request has returned or raised: its locals and its session are gone
Returned == [IdleIngest EXCEPT !.pc = "done"]

\* the request raised before its local variable document was assigned: the
\* except block's "if document:" raises UnboundLocalError in place of the error
Unbound == [Returned EXCEPT !.unbound = TRUE]

----------------------------------------------------------------------------
(* DocumentService: process_pdf / process_url / _process_and_embed *)

\* Session.commit() of the request's session on the row of document d; an
\* UPDATE of a row deleted meanwhile raises. A commit that failed leaves the
\* session unusable until rollback(), which ingestion never calls, so the commit
\* of the except blocks raises as well: a failed commit is followed by Raise(d, FALSE).
CommitSucceeds(d, ok) == ok /\ documents[d].status # "deleted"

\* the except blocks: document.status = "error"; error_message = str(e); commit; raise
ErrorRow(row) == [row EXCEPT !.status = "error", !.error_message = TRUE]

\* the row of d after the except block of _process_and_embed (and then that of
\* process_pdf / process_url, which writes the same values) has run
AfterHandlers(d, ok) ==
    IF CommitSucceeds(d, ok) THEN ErrorRow(documents[d]) ELSE documents[d]

\* the request of d ends with the exception raised to the caller
Raise(d, ok) ==
    /\ documents' = [documents EXCEPT ![d] = AfterHandlers(d, ok)]
    /\ ing' = [ing EXCEPT ![d] = Returned]

\* the row written on success: status, chunk_count, vector_ids
CompletedRow(row, count, ids) ==
    [row EXCEPT !.status = "completed", !.chunk_count = count, !.vector_ids = ids]

\* where process_pdf / process_url go after _process_and_embed returns
AfterEmbed(d) ==
    IF ing[d].kind = "pdf" THEN [ing[d] EXCEPT !.pc = "finish"] ELSE Returned

\* process_pdf / process_url up to the call of _process_and_embed: extraction,
\* hash lookup (no row has this content), markdown copy, Document row and, for a
\* PDF, ProcessingJob row. fault names the call that raises.
ProcessStart(d, kind, skip, fault) ==
    /\ ing[d].pc = "idle"
    /\ documents[d].status = "absent"
    /\ \/ /\ fault \in {"extract", "lookup"}
          \* extraction / scraping or the hash lookup raises: no row, and the
          \* except block finds no variable document
          /\ ing' = [ing EXCEPT ![d] = Unbound]
          /\ UNCHANGED documents
       \/ /\ fault = "commit"
          \* the INSERT fails: no row, the except block cannot commit either
          /\ ing' = [ing EXCEPT ![d] = Returned]
          /\ UNCHANGED documents
       \/ /\ fault = "refresh"
          \* row committed, db.refresh raises: the except block marks it error
          /\ ing' = [ing EXCEPT ![d] = Returned]
          /\ documents' = [documents EXCEPT ![d] = ErrorRow(NewDocument)]
       \/ /\ fault = "job_commit" /\ kind = "pdf"
          \* ProcessingJob commit fails: the except block's commit raises in turn
          /\ ing' = [ing EXCEPT ![d] = Returned]
          /\ documents' = [documents EXCEPT ![d] = NewDocument]
       \/ /\ fault = "none"
          /\ ing' = [ing EXCEPT ![d] = [IdleIngest EXCEPT !.pc = "fetch", !.kind = kind,
                                         !.skip_existing = skip]]
          /\ documents' = [documents EXCEPT ![d] = NewDocument]
    /\ UNCHANGED index

\* _process_and_embed, were the vectors found left in place when skip_existing
\* is false
FetchExisting_NoDelete(d, ok, commitOk) ==
    /\ ing[d].pc = "fetch"
    /\ UNCHANGED index
    /\ IF ~ok THEN Raise(d, commitOk)
       ELSE IF index[d] # {} /\ ing[d].skip_existing
       THEN IF CommitSucceeds(d, commitOk)
            THEN /\ documents' = [documents EXCEPT ![d] =
                        CompletedRow(@, Cardinality(index[d]), index[d])]
                 /\ ing' = [ing EXCEPT ![d] = AfterEmbed(d)]
            ELSE Raise(d, FALSE)
       ELSE /\ ing' = [ing EXCEPT ![d].pc = "chunk"]
            /\ UNCHANGED documents

\* _process_and_embed: fetch_vectors_by_filter, then the skip_existing branch
FetchExisting(d, ok, commitOk) ==
    /\ ing[d].pc = "fetch"
    /\ UNCHANGED index
    /\ IF ~ok THEN Raise(d, commitOk)
       ELSE IF index[d] # {} /\ ing[d].skip_existing
       THEN IF CommitSucceeds(d, commitOk)
            THEN /\ documents' = [documents EXCEPT ![d] =
                        CompletedRow(@, Cardinality(index[d]), index[d])]
                 /\ ing' = [ing EXCEPT ![d] = AfterEmbed(d)]
            ELSE Raise(d, FALSE)
       ELSE /\ ing' = [ing EXCEPT ![d].pc = IF index[d] # {} THEN "delete" ELSE "chunk",
                                  ![d].existing = index[d]]
            /\ UNCHANGED documents

\* _process_and_embed: delete_vectors(existing_vector_ids)
DeleteExisting(d, ok, commitOk) ==
    /\ ing[d].pc = "delete"
    /\ IF ok
       THEN /\ index' = [index EXCEPT ![d] = @ \ ing[d].existing]
            /\ ing' = [ing EXCEPT ![d].pc = "chunk", ![d].existing = {}]
            /\ UNCHANGED documents
       ELSE /\ UNCHANGED index
            /\ Raise(d, commitOk)

\* _process_and_embed: chunk_text, the no-chunks branch, embed_batch
ChunkAndEmbed(d, n, ok, commitOk) ==
    /\ ing[d].pc = "chunk"
    /\ UNCHANGED index
    /\ IF n = 0
       THEN IF CommitSucceeds(d, commitOk)
            THEN /\ documents' = [documents EXCEPT ![d] =
                        [@ EXCEPT !.status = "completed", !.chunk_count = 0]]
                 /\ ing' = [ing EXCEPT ![d] = AfterEmbed(d)]
            ELSE Raise(d, FALSE)
       ELSE IF ok
       THEN /\ ing' = [ing EXCEPT ![d].pc = "upsert", ![d].n = n, ![d].sent = 0]
            /\ UNCHANGED documents
       ELSE Raise(d, commitOk)

\* vector ids doc_{d}_chunk_{idx} of the chunks lo .. hi-1 (by chunk number)
VectorIds(lo, hi) == lo .. (hi - 1)

\* upsert_vectors, were it to log a failing batch and go on with the next
UpsertBatch_Swallow(d, ok, commitOk) ==
    /\ ing[d].pc = "upsert"
    /\ LET hi == Min(ing[d].sent + BatchSize, ing[d].n)
       IN /\ index' = [index EXCEPT ![d] =
                          IF ok THEN @ \cup VectorIds(ing[d].sent, hi) ELSE @]
          /\ ing' = [ing EXCEPT ![d].sent = hi,
                                ![d].pc = IF hi >= ing[d].n THEN "commit" ELSE "upsert"]
          /\ UNCHANGED documents

\* upsert_vectors, were it to send all the vectors left in one call
UpsertBatch_Whole(d, ok, commitOk) ==
    /\ ing[d].pc = "upsert"
    /\ IF ok
       THEN /\ index' = [index EXCEPT ![d] = @ \cup VectorIds(ing[d].sent, ing[d].n)]
            /\ ing' = [ing EXCEPT ![d].sent = ing[d].n, ![d].pc = "commit"]
            /\ UNCHANGED documents
       ELSE /\ UNCHANGED index
            /\ Raise(d, commitOk)

\* upsert_vectors: one batch vectors[i : i + batch_size] of the loop
UpsertBatch(d, ok, commitOk) ==
    /\ ing[d].pc = "upsert"
    /\ LET hi == Min(ing[d].sent + BatchSize, ing[d].n)
       IN IF ok
          THEN /\ index' = [index EXCEPT ![d] = @ \cup VectorIds(ing[d].sent, hi)]
               /\ ing' = [ing EXCEPT ![d].sent = hi,
                                     ![d].pc = IF hi >= ing[d].n THEN "commit" ELSE "upsert"]
               /\ UNCHANGED documents
          ELSE /\ UNCHANGED index
               /\ Raise(d, commitOk)

\* _process_and_embed: the document record update after the upsert
CommitCompleted(d, commitOk) ==
    /\ ing[d].pc = "commit"
    /\ UNCHANGED index
    /\ IF CommitSucceeds(d, commitOk)
       THEN /\ documents' = [documents EXCEPT ![d] =
                   CompletedRow(@, ing[d].n, VectorIds(0, ing[d].n))]
            /\ ing' = [ing EXCEPT ![d] = AfterEmbed(d)]
       ELSE Raise(d, FALSE)

\* process_pdf: the ProcessingJob update after _process_and_embed returned
FinishPdf(d, commitOk) ==
    /\ ing[d].pc = "finish"
    /\ UNCHANGED index
    /\ IF CommitSucceeds(d, commitOk)
       THEN /\ ing' = [ing EXCEPT ![d] = Returned]
            /\ UNCHANGED documents
       ELSE Raise(d, FALSE)

\* process_pdf / process_url, were a stored document in error to be processed anew
ReturnExisting_Retry(d, kind, skip, ok) ==
    /\ ing[d].pc \in {"idle", "done", "existing"}
    /\ DocExists(d)
    /\ IF ok /\ documents[d].status = "error"
       THEN /\ documents' = [documents EXCEPT ![d] = NewDocument]
            /\ ing' = [ing EXCEPT ![d] = [IdleIngest EXCEPT !.pc = "fetch", !.kind = kind,
                                           !.skip_existing = skip]]
       ELSE /\ ing' = [ing EXCEPT ![d] = IF ok THEN [Returned EXCEPT !.pc = "existing"] ELSE Unbound]
            /\ UNCHANGED documents
    /\ UNCHANGED index

\* process_pdf / process_url on content that a stored row has the hash of:
\* extraction (ok: it returns), the hash lookup finds the row, the row is returned
ReturnExisting(d, kind, skip, ok) ==
    /\ ing[d].pc \in {"idle", "done", "existing"}
    /\ DocExists(d)
    /\ ing' = [ing EXCEPT ![d] = IF ok THEN [Returned EXCEPT !.pc = "existing"] ELSE Unbound]
    /\ UNCHANGED <<documents, index>>

----------------------------------------------------------------------------
(* DocumentService.delete_document *)

\* ForeignKey("documents.id") of generation_source_documents: rows that refer to d
Referenced(d) == \E l \in links : l[2] = d

\* db.delete(document); db.commit()
DeleteRow(d, ok) ==
    IF ok /\ ~Referenced(d)
    THEN [documents EXCEPT ![d] = [NoDocument EXCEPT !.status = "deleted"]]
    ELSE documents

\* delete_document up to and including delete_vectors; without vector_ids the
\* row is deleted in the same step
DeleteDocument(d, ok, commitOk) ==
    /\ del[d] = "idle"
    /\ DocExists(d)
    /\ UNCHANGED ing
    /\ IF documents[d].vector_ids = {}
       THEN /\ documents' = DeleteRow(d, commitOk)
            /\ UNCHANGED <<index, del>>
       ELSE IF ok
       THEN /\ index' = [index EXCEPT ![d] = @ \ documents[d].vector_ids]
            /\ del' = [del EXCEPT ![d] = "row"]
            /\ UNCHANGED documents
       ELSE UNCHANGED <<documents, index, del>>

\* delete_document after delete_vectors returned: the markdown file and the row
DeleteDocumentRow(d, commitOk) ==
    /\ del[d] = "row"
    /\ documents' = DeleteRow(d, commitOk)
    /\ del' = [del EXCEPT ![d] = "idle"]
    /\ UNCHANGED <<index, ing>>

----------------------------------------------------------------------------
(* Generation: data *)

Providers == {"anthropic", "openai"}

\* llm_model arguments: omitted, or named
LlmModels == {None, "claude-3-5-sonnet-20240620"}

\* template_id arguments: omitted (0 is as falsy as None), a row, no row
TemplateArgs == {0, 1, 2}

\* _template_to_dict of a row whose template_structure has n sections,
\* the sections named 1 .. n
Template(n) == [found |-> TRUE, sections |-> [k \in 1..n |-> k]]

\* no row: get_template / get_default_template return None
NoTemplate == [found |-> FALSE, sections |-> <<>>]

\* no generation_jobs row yet (result_id 0 stands for NULL)
NoJob ==
    [status |-> "none", progress_percent |-> 0, current_step |-> "",
     result_id |-> 0, error_message |-> "", started_at |-> FALSE,
     completed_at |-> FALSE, selected_document_ids |-> {}, llm_model |-> None]

NoTask ==
    [pc |-> "none", document_ids |-> {}, llm_provider |-> "anthropic",
     llm_model |-> None, template_id |-> 0, context |-> {},
     template |-> NoTemplate, title |-> FALSE, i |-> 0, sections |-> <<>>,
     content_id |-> 0]

NoGhost == [fault |-> FALSE, raised |-> FALSE]

----------------------------------------------------------------------------
(* DocumentSelectorService *)

\* validate_document_ids, were it to check for existence alone
ValidDocs_AnyStatus(ids) == {d \in ids : DocExists(d)}

\* validate_document_ids: the ids that exist, completed, with chunk_count > 0
ValidDocs(ids) ==
    {d \in ids : /\ DocExists(d)
                 /\ documents[d].status = "completed"
                 /\ documents[d].chunk_count > 0}

validate_document_ids(ids) ==
    [valid |-> ValidDocs(ids), invalid |-> ids \ ValidDocs(ids)]

\* get_document_context: the keys of the mapping it can return, the requested
\* documents that have a vector among the matches of the query
ContextKeys(ids) == SUBSET {d \in ids : index[d] # {}}

----------------------------------------------------------------------------
(* LLMService *)

\* get_default_model
get_default_model(provider) ==
    IF provider = "anthropic" THEN "claude-3-5-sonnet-20240620"
    ELSE "gpt-4-turbo-preview"

\* estimate_cost: `"claude-3-5-sonnet" in model` and `"gpt-4" in model` raise
\* TypeError when model is None; otherwise a price is returned
estimate_cost(provider, model) ==
    IF provider \in Providers /\ model = None THEN "TypeError" ELSE "cost"

----------------------------------------------------------------------------
(* ContentGeneratorService *)

\* the progress written with status "completed", were the last step to repeat 95
CompletedProgress_Stale == 100 - 5

\* the progress written with status "completed"
CompletedProgress == 100

\* the progress written with status "failed"
FailedProgress == 0

\* the section loop, were the progress that of the section just finished
SectionProgress_After(i, total) == 30 + (((i + 1) * 60) \div total)

\* progress = 30 + int((i / total_sections) * 60)
SectionProgress(i, total) == 30 + ((i * 60) \div total)

\* _update_job_status, the row after the assignments (job: the row found)
UpdatedJob(j, status, progress, message, result_id) ==
    [j EXCEPT !.status = status,
              !.progress_percent = progress,
              !.current_step = message,
              !.started_at = IF status = "processing" THEN TRUE ELSE @,
              !.completed_at = IF status \in {"completed", "failed"} THEN TRUE ELSE @,
              !.result_id = IF status \in {"completed", "failed"} /\ result_id # 0
                            THEN result_id ELSE @,
              !.error_message = IF status = "failed" THEN message ELSE @]

\* _update_job_status: nothing is written when no row is found, and a failing
\* commit is logged, rolled back and not raised
UpdateJobStatus(status, progress, message, result_id, dbOk) ==
    /\ job' = IF job.status # "none" /\ dbOk
              THEN UpdatedJob(job, status, progress, message, result_id)
              ELSE job

\* ghost: an external call or a status update failed / the workflow raised
Note(ext, upd, raised) ==
    ghost' = [fault |-> ghost.fault \/ ext \/ upd, raised |-> ghost.raised \/ raised]

\* start_generation
StartGeneration(ids, provider, model, template_id, dbOk) ==
    /\ task.pc = "none"
    /\ LET validation == validate_document_ids(ids)
       IN IF validation.valid = {}
          THEN /\ lastStart' = [result |-> "ValueError", ids |-> ids]
               /\ UNCHANGED <<job, task, ghost>>
          ELSE IF ~dbOk
          THEN /\ lastStart' = [result |-> "error", ids |-> ids]
               /\ UNCHANGED <<job, task, ghost>>
          ELSE /\ lastStart' = [result |-> "started", ids |-> ids]
               /\ job' = [NoJob EXCEPT
                            !.status = "pending",
                            !.selected_document_ids = validation.valid,
                            !.llm_model = IF model # None THEN model
                                          ELSE get_default_model(provider)]
               /\ task' = [NoTask EXCEPT
                            !.pc = "start",
                            !.document_ids = validation.valid,
                            !.llm_provider = provider,
                            !.llm_model = model,
                            !.template_id = template_id]
               /\ UNCHANGED ghost
    /\ UNCHANGED <<contents, links>>

\* TemplateService.get_template
get_template(template_id) ==
    IF template_id \in DOMAIN templates.byId THEN templates.byId[template_id]
    ELSE NoTemplate

\* TemplateService.get_default_template (of the job's content type)
get_default_template == templates.default

\* _run_generation, step 2: the explicit template, else the default one
LoadTemplate(template_id) ==
    IF template_id # 0 THEN get_template(template_id) ELSE get_default_template

\* the task goes to its except block
Fail == task' = [task EXCEPT !.pc = "fail"]

\* _run_generation: "Starting generation..."
RunStart(dbOk) ==
    /\ task.pc = "start"
    /\ UpdateJobStatus("processing", 0, "Starting generation...", 0, dbOk)
    /\ task' = [task EXCEPT !.pc = "s10"]
    /\ Note(FALSE, ~dbOk, FALSE)
    /\ UNCHANGED <<contents, links, lastStart>>

\* _run_generation, step 1: the status update, get_document_context is called
RunGather(dbOk) ==
    /\ task.pc = "s10"
    /\ UpdateJobStatus("processing", 10, "Gathering context from documents...", 0, dbOk)
    /\ task' = [task EXCEPT !.pc = "ctx"]
    /\ Note(FALSE, ~dbOk, FALSE)
    /\ UNCHANGED <<contents, links, lastStart>>

\* _run_generation, step 1: get_document_context returns or raises
RunContext(keys, ok) ==
    /\ task.pc = "ctx"
    /\ keys \in ContextKeys(task.document_ids)
    /\ IF ok THEN task' = [task EXCEPT !.pc = "s20", !.context = keys] ELSE Fail
    /\ Note(~ok, FALSE, ~ok)
    /\ UNCHANGED <<job, contents, links, lastStart>>

\* _run_generation, step 2: the status update and the template lookup
RunLoadTemplate(dbOk, ok) ==
    /\ task.pc = "s20"
    /\ UpdateJobStatus("processing", 20, "Loading template...", 0, dbOk)
    /\ LET template == LoadTemplate(task.template_id)
       IN IF ok /\ template.found
          THEN task' = [task EXCEPT !.pc = "s30", !.template = template]
          ELSE Fail
    /\ Note(~ok, ~dbOk, ~ok \/ ~LoadTemplate(task.template_id).found)
    /\ UNCHANGED <<contents, links, lastStart>>

\* _run_generation, step 3: the status update, _generate_title is called
RunGenerate(dbOk) ==
    /\ task.pc = "s30"
    /\ UpdateJobStatus("processing", 30, "Generating content...", 0, dbOk)
    /\ task' = [task EXCEPT !.pc = "title"]
    /\ Note(FALSE, ~dbOk, FALSE)
    /\ UNCHANGED <<contents, links, lastStart>>

\* where _generate_content goes with i sections done
AfterSection(i) == IF i < Len(task.template.sections) THEN "sec" ELSE "s90"

\* _generate_content: _generate_title returns or raises
RunTitle(ok) ==
    /\ task.pc = "title"
    /\ IF ok THEN task' = [task EXCEPT !.pc = AfterSection(0), !.title = TRUE, !.i = 0]
       ELSE Fail
    /\ Note(~ok, FALSE, ~ok)
    /\ UNCHANGED <<job, contents, links, lastStart>>

\* _generate_content: the status update of section i, _generate_section is called
RunSection(dbOk) ==
    /\ task.pc = "sec"
    /\ UpdateJobStatus("processing",
                       SectionProgress(task.i, Len(task.template.sections)),
                       "Generating section", 0, dbOk)
    /\ task' = [task EXCEPT !.pc = "gensec"]
    /\ Note(FALSE, ~dbOk, FALSE)
    /\ UNCHANGED <<contents, links, lastStart>>

\* _generate_content: _generate_section returns or raises
RunSectionDone(ok) ==
    /\ task.pc = "gensec"
    /\ IF ok
       THEN task' = [task EXCEPT !.pc = AfterSection(task.i + 1),
                                 !.sections = Append(@, task.template.sections[task.i + 1]),
                                 !.i = @ + 1]
       ELSE Fail
    /\ Note(~ok, FALSE, ~ok)
    /\ UNCHANGED <<job, contents, links, lastStart>>

\* _run_generation, step 4: the status update and _format_as_html
RunFormat(dbOk, ok) ==
    /\ task.pc = "s90"
    /\ UpdateJobStatus("processing", 90, "Formatting content...", 0, dbOk)
    /\ IF ok THEN task' = [task EXCEPT !.pc = "s95"] ELSE Fail
    /\ Note(~ok, ~dbOk, ~ok)
    /\ UNCHANGED <<contents, links, lastStart>>

\* the calls of _save_generated_content that can fail
SaveFaults == {"none", "commit1", "refresh", "commit2"}

\* _save_generated_content, were it to log a failing first commit and return the id
SaveGeneratedContent_Swallow(fault) ==
    LET id == Cardinality(contents) + 1
        stored == contents \cup {[id |-> id, sections |-> task.sections]}
    IN  IF fault = "commit1" THEN [contents |-> contents, links |-> links, id |-> id]
        ELSE IF \/ estimate_cost(task.llm_provider, task.llm_model) = "TypeError"
                \/ task.llm_model = None
        THEN [contents |-> contents, links |-> links, id |-> 0]
        ELSE IF \/ fault \in {"refresh", "commit2"}
                \/ \E d \in task.document_ids : ~DocExists(d)
        THEN [contents |-> stored, links |-> links, id |-> 0]
        ELSE [contents |-> stored,
              links |-> links \cup {<<id, d>> : d \in task.document_ids},
              id |-> id]

\* _save_generated_content: what is in the store afterwards and the id returned
\* (0: it raised). The cost is estimated first; the first commit inserts the
\* GeneratedContent row (llm_model is NOT NULL); the second commit inserts the
\* source links (document_id is a foreign key); rollback undoes only what the
\* failing commit was about to write.
SaveGeneratedContent(fault) ==
    LET id == Cardinality(contents) + 1
        row == [id |-> id, sections |-> task.sections]
        stored == contents \cup {row}
    IN  IF \/ estimate_cost(task.llm_provider, task.llm_model) = "TypeError"
           \/ task.llm_model = None
           \/ fault = "commit1"
        THEN [contents |-> contents, links |-> links, id |-> 0]
        ELSE IF \/ fault \in {"refresh", "commit2"}
                \/ \E d \in task.document_ids : ~DocExists(d)
        THEN [contents |-> stored, links |-> links, id |-> 0]
        ELSE [contents |-> stored,
              links |-> links \cup {<<id, d>> : d \in task.document_ids},
              id |-> id]

\* _run_generation, step 5: the status update and _save_generated_content
RunSave(dbOk, fault) ==
    /\ task.pc = "s95"
    /\ UpdateJobStatus("processing", 95, "Saving content...", 0, dbOk)
    /\ LET saved == SaveGeneratedContent(fault)
       IN /\ contents' = saved.contents
          /\ links' = saved.links
          /\ IF saved.id # 0
             THEN task' = [task EXCEPT !.pc = "s100", !.content_id = saved.id]
             ELSE Fail
          /\ Note(fault # "none", ~dbOk, saved.id = 0)
    /\ UNCHANGED lastStart

\* _run_generation, step 6
RunComplete(dbOk) ==
    /\ task.pc = "s100"
    /\ UpdateJobStatus("completed", CompletedProgress, "Generation completed",
                       task.content_id, dbOk)
    /\ task' = [task EXCEPT !.pc = "done"]
    /\ Note(FALSE, ~dbOk, FALSE)
    /\ UNCHANGED <<contents, links, lastStart>>

\* _run_generation, the except block
RunFail(dbOk) ==
    /\ task.pc = "fail"
    /\ UpdateJobStatus("failed", FailedProgress, "Generation failed: error", 0, dbOk)
    /\ task' = [task EXCEPT !.pc = "done"]
    /\ Note(FALSE, ~dbOk, FALSE)
    /\ UNCHANGED <<contents, links, lastStart>>

----------------------------------------------------------------------------
(* Specifications *)

\* no service function called yet
NoCall == [fn |-> "none"]

\* no progress stream opened: event_generator not started
NoStream ==
    [pc |-> "none", polls |-> 0, last_status |-> [kind |-> "None"], last |-> "none",
     dones |-> 0]

\* a TextChunker not in use
NoChunker ==
    [pc |-> "idle", chunk_size |-> DefaultChunkSize, chunk_overlap |-> DefaultChunkOverlap,
     text |-> <<>>, start |-> 0, chunk_index |-> 0, chunks |-> <<>>, seen |-> {}]

\* content_templates: template 1 with one section; the job's content type has a
\* default template of MaxSections sections, or none
TemplateStores ==
    [default : {NoTemplate, Template(MaxSections)},
     byId : {[t \in {1} |-> Template(1)]}]

\* what finished ingestion requests leave of a document: its row and its vectors
StoredDocs ==
    {[row |-> NoDocument, vectors |-> {}],
     [row |-> CompletedRow(NewDocument, 1, VectorIds(0, 1)), vectors |-> VectorIds(0, 1)],
     [row |-> [NewDocument EXCEPT !.status = "completed"], vectors |-> {}],
     [row |-> ErrorRow(NewDocument), vectors |-> {}]}

\* nothing ingested, no job
EmptyInit ==
    /\ documents = [d \in DocIds |-> NoDocument]
    /\ index \in [DocIds -> StaleSets]
    /\ ing = [d \in DocIds |-> IdleIngest]
    /\ del = [d \in DocIds |-> "idle"]
    /\ job = NoJob
    /\ task = NoTask
    /\ contents = {}
    /\ links = {}
    /\ templates = [default |-> Template(MaxSections), byId |-> [t \in {1} |-> Template(1)]]
    /\ lastStart = [result |-> "none", ids |-> {}]
    /\ ghost = NoGhost
    /\ chunker = NoChunker
    /\ pages = {}
    /\ call = NoCall
    /\ stream = NoStream

\* a store that ingestion has filled, no job
Init ==
    /\ \E stored \in [DocIds -> StoredDocs] :
        /\ documents = [d \in DocIds |-> stored[d].row]
        /\ index = [d \in DocIds |-> stored[d].vectors]
    /\ ing = [d \in DocIds |-> IdleIngest]
    /\ del = [d \in DocIds |-> "idle"]
    /\ job = NoJob
    /\ task = NoTask
    /\ contents = {}
    /\ links = {}
    /\ templates \in TemplateStores
    /\ lastStart = [result |-> "none", ids |-> {}]
    /\ ghost = NoGhost
    /\ chunker = NoChunker
    /\ pages = {}
    /\ call = NoCall
    /\ stream = NoStream

\* an empty store beside an empty index
FreshInit ==
    /\ EmptyInit
    /\ index = [d \in DocIds |-> {}]

IngestNext ==
    /\ \E d \in DocIds :
        \/ \E kind \in {"pdf", "url"}, skip \in BOOLEAN,
              fault \in {"none", "extract", "lookup", "commit", "refresh",
                         "job_commit"} :
                ProcessStart(d, kind, skip, fault)
        \/ \E ok \in BOOLEAN, commitOk \in BOOLEAN : FetchExisting(d, ok, commitOk)
        \/ \E ok \in BOOLEAN, commitOk \in BOOLEAN : DeleteExisting(d, ok, commitOk)
        \/ \E n \in NChunks, ok \in BOOLEAN, commitOk \in BOOLEAN :
                ChunkAndEmbed(d, n, ok, commitOk)
        \/ \E ok \in BOOLEAN, commitOk \in BOOLEAN : UpsertBatch(d, ok, commitOk)
        \/ \E commitOk \in BOOLEAN : CommitCompleted(d, commitOk)
        \/ \E commitOk \in BOOLEAN : FinishPdf(d, commitOk)
    /\ UNCHANGED <<del, genVars, templates, ghost, chunker, svcVars>>

DeleteNext ==
    /\ \E d \in DocIds :
        \/ \E ok \in BOOLEAN, commitOk \in BOOLEAN : DeleteDocument(d, ok, commitOk)
        \/ \E commitOk \in BOOLEAN : DeleteDocumentRow(d, commitOk)
    /\ UNCHANGED <<genVars, templates, ghost, chunker, svcVars>>

\* the steps of the generation job; oks: the outcomes the calls can have
\* (TRUE: the call returns), faults: those of _save_generated_content,
\* providers: the llm_provider values requests come with
GenerateSteps(oks, faults, providers) ==
    /\ \/ \E ids \in SUBSET DocIds, provider \in providers, model \in LlmModels,
             template_id \in TemplateArgs, dbOk \in oks :
                StartGeneration(ids, provider, model, template_id, dbOk)
       \/ \E dbOk \in oks : RunStart(dbOk)
       \/ \E dbOk \in oks : RunGather(dbOk)
       \/ \E keys \in SUBSET DocIds, ok \in oks : RunContext(keys, ok)
       \/ \E dbOk \in oks, ok \in oks : RunLoadTemplate(dbOk, ok)
       \/ \E dbOk \in oks : RunGenerate(dbOk)
       \/ \E ok \in oks : RunTitle(ok)
       \/ \E dbOk \in oks : RunSection(dbOk)
       \/ \E ok \in oks : RunSectionDone(ok)
       \/ \E dbOk \in oks, ok \in oks : RunFormat(dbOk, ok)
       \/ \E dbOk \in oks, fault \in faults : RunSave(dbOk, fault)
       \/ \E dbOk \in oks : RunComplete(dbOk)
       \/ \E dbOk \in oks : RunFail(dbOk)
    /\ UNCHANGED <<docVars, templates, chunker, svcVars>>

GenerateNext == GenerateSteps(BOOLEAN, SaveFaults, Providers)

Next == DeleteNext \/ GenerateNext

\* one generation job and document deletion over a filled store, every call
\* of the job able to fail
Spec == Init /\ [][Next]_vars

\* ingestion from an empty store, every call able to fail
IngestSpec == EmptyInit /\ [][IngestNext]_vars

\* the generation job here: every call returns, requests keep the default provider
PipelineNext ==
    IngestNext \/ DeleteNext \/ GenerateSteps({TRUE}, {"none"}, {"anthropic"})

\* ingestion, deletion and one generation job interleaved from an empty store
PipelineSpec == EmptyInit /\ [][PipelineNext]_vars

\* requests for content that is stored already
ReingestNext ==
    /\ \E d \in DocIds, kind \in {"pdf", "url"}, skip \in BOOLEAN, ok \in BOOLEAN :
            ReturnExisting(d, kind, skip, ok)
    /\ UNCHANGED <<del, genVars, templates, ghost, chunker, svcVars>>

\* ingestion from an empty store, sources submitted again after their request ended
ReingestSpec == EmptyInit /\ [][IngestNext \/ ReingestNext]_vars

-----------------------------------------------------------------------------
(* Two requests with the same content. Request r would insert row r; the     *)
(* rows carry the same content_hash, which the table declares unique.        *)

\* a row with the content hash of the requests is in the table
HashExists == \E e \in DocIds : DocExists(e)

\* the request raised IntegrityError on its INSERT: the hash is already there
Conflict == [Returned EXCEPT !.pc = "conflict"]

\* process_pdf / process_url from the call to the first point where the event
\* loop can run the other request. The lookup finds the row or not. process_pdf
\* has no await before _process_and_embed, so its INSERT follows the lookup in
\* the same step; process_url awaits scrape_and_save first.
RaceLookup(r, kind, skip, fault) ==
    /\ ing[r].pc = "idle"
    /\ IF fault \in {"extract", "lookup"}
       THEN /\ ing' = [ing EXCEPT ![r] = Unbound]
            /\ UNCHANGED <<documents, index>>
       ELSE IF HashExists
       THEN /\ fault = "none"
            /\ ing' = [ing EXCEPT ![r] = [Returned EXCEPT !.pc = "existing"]]
            /\ UNCHANGED <<documents, index>>
       ELSE IF kind = "pdf"
       THEN ProcessStart(r, kind, skip, fault)
       ELSE /\ fault = "none"
            /\ ing' = [ing EXCEPT ![r] = [IdleIngest EXCEPT !.pc = "insert", !.kind = kind,
                                           !.skip_existing = skip]]
            /\ UNCHANGED <<documents, index>>

\* process_url from the return of scrape_and_save to the call of
\* _process_and_embed: the Document row is added and committed. The unique
\* content_hash refuses a second row; the except block has no row to mark.
RaceInsert(r, fault) ==
    /\ ing[r].pc = "insert"
    /\ \/ /\ fault = "save"
          \* scrape_and_save raises: document is not assigned yet
          /\ ing' = [ing EXCEPT ![r] = Unbound]
          /\ UNCHANGED documents
       \/ /\ fault # "save"
          /\ HashExists
          /\ ing' = [ing EXCEPT ![r] = Conflict]
          /\ UNCHANGED documents
       \/ /\ fault = "commit"
          /\ ~HashExists
          /\ ing' = [ing EXCEPT ![r] = Returned]
          /\ UNCHANGED documents
       \/ /\ fault = "refresh"
          /\ ~HashExists
          /\ ing' = [ing EXCEPT ![r] = Returned]
          /\ documents' = [documents EXCEPT ![r] = ErrorRow(NewDocument)]
       \/ /\ fault = "none"
          /\ ~HashExists
          /\ ing' = [ing EXCEPT ![r] = [ing[r] EXCEPT !.pc = "fetch"]]
          /\ documents' = [documents EXCEPT ![r] = NewDocument]
    /\ UNCHANGED index

RaceNext ==
    /\ \E r \in DocIds :
        \/ \E kind \in {"pdf", "url"}, skip \in BOOLEAN,
              fault \in {"none", "extract", "lookup", "commit", "refresh",
                         "job_commit"} :
                RaceLookup(r, kind, skip, fault)
        \/ \E fault \in {"none", "save", "commit", "refresh"} : RaceInsert(r, fault)
        \/ \E ok \in BOOLEAN, commitOk \in BOOLEAN : FetchExisting(r, ok, commitOk)
        \/ \E ok \in BOOLEAN, commitOk \in BOOLEAN : DeleteExisting(r, ok, commitOk)
        \/ \E n \in NChunks, ok \in BOOLEAN, commitOk \in BOOLEAN :
                ChunkAndEmbed(r, n, ok, commitOk)
        \/ \E ok \in BOOLEAN, commitOk \in BOOLEAN : UpsertBatch(r, ok, commitOk)
        \/ \E commitOk \in BOOLEAN : CommitCompleted(r, commitOk)
        \/ \E commitOk \in BOOLEAN : FinishPdf(r, commitOk)
    /\ UNCHANGED <<del, genVars, templates, ghost, chunker, svcVars>>

RaceSpec == EmptyInit /\ [][RaceNext]_vars

----------------------------------------------------------------------------
(* TextChunker: fixed-size chunking *)

\* the characters of a text: a letter and the space the word-boundary cut looks for
Chars == {"a", " "}

\* the texts of at most MaxLen characters
Texts == UNION {[1..n -> Chars] : n \in 0..MaxLen}

\* the constructor's arguments; 0 stands for the falsy ones, None and 0
ChunkArgs == 0..MaxChunkArg

\* Python's "x or default"
Or(x, default) == IF x = 0 THEN default ELSE x

\* Python's normalisation of a slice bound against a length
Norm(i, len) ==
    IF i < 0 THEN (IF i + len < 0 THEN 0 ELSE i + len)
    ELSE IF i > len THEN len ELSE i

\* str.rfind(' ', lo, hi): the highest 0-based position of a space within
\* text[lo:hi], -1 if there is none
rfind(text, lo, hi) ==
    LET found == {p \in Norm(lo, Len(text)) .. (Norm(hi, Len(text)) - 1) :
                    text[p + 1] = " "}
    IN  IF found = {} THEN -1
        ELSE CHOOSE p \in found : \A q \in found : q <= p

\* text[lo:hi]
Slice(text, lo, hi) ==
    SubSeq(text, Norm(lo, Len(text)) + 1, Norm(hi, Len(text)))

\* the characters \\s matches and str.strip() removes, of those in the texts
Whitespace == {" ", "\n"}

\* str.strip()
strip(str) ==
    LET solid == {i \in 1..Len(str) : str[i] \notin Whitespace}
    IN  IF solid = {} THEN <<>>
        ELSE SubSeq(str, CHOOSE i \in solid : \A j \in solid : i <= j,
                         CHOOSE i \in solid : \A j \in solid : j <= i)

\* TextChunker.__init__
TextChunker(chunk_size, chunk_overlap) ==
    /\ chunker.pc = "idle"
    /\ chunker' = [NoChunker EXCEPT
                      !.pc = "ready",
                      !.chunk_size = Or(chunk_size, DefaultChunkSize),
                      !.chunk_overlap = Or(chunk_overlap, DefaultChunkOverlap)]
    /\ UNCHANGED <<docVars, genVars, templates, ghost, svcVars>>

\* _chunk_fixed_size: the call, up to the head of the loop
ChunkFixedSize(text) ==
    /\ chunker.pc = "ready"
    /\ chunker' = [chunker EXCEPT !.pc = "loop", !.text = text, !.start = 0,
                                  !.chunk_index = 0, !.chunks = <<>>, !.seen = {}]
    /\ UNCHANGED <<docVars, genVars, templates, ghost, svcVars>>

\* the end of the chunk that begins at start: start + chunk_size, moved back to
\* the last space of the 50 characters before it if that lies after start
ChunkEnd(c) ==
    LET end == c.start + c.chunk_size
        space_pos == rfind(c.text, end - LookBack, end)
    IN  IF end < Len(c.text) /\ space_pos # -1 /\ space_pos > c.start
        THEN space_pos ELSE end

\* the loop can be shown never to end from the start position next: an earlier
\* iteration began there (the body is a function of start), or the chunk lies
\* before the text for good
Doomed(c, next) ==
    \/ next \in c.seen \cup {c.start}
    \/ /\ c.chunk_size <= c.chunk_overlap
       /\ c.start + c.chunk_size <= 0 - Len(c.text)

\* the chunker after one iteration of the while loop of _chunk_fixed_size
AfterIteration(c) ==
    LET end == ChunkEnd(c)
        chunk_text == strip(Slice(c.text, c.start, end))
        next == end - c.chunk_overlap
    IN  [c EXCEPT
            !.chunks = IF chunk_text # <<>>
                       THEN Append(@, [content |-> chunk_text,
                                       chunk_index |-> c.chunk_index,
                                       start_char |-> c.start,
                                       end_char |-> end])
                       ELSE @,
            !.chunk_index = IF chunk_text # <<>> THEN @ + 1 ELSE @,
            !.start = next,
            !.seen = @ \cup {c.start},
            !.pc = IF Doomed(c, next) THEN "diverged" ELSE "loop"]

\* _chunk_fixed_size: one iteration of the while loop
FixedSizeStep ==
    /\ chunker.pc = "loop"
    /\ chunker.start < Len(chunker.text)
    /\ chunker' = AfterIteration(chunker)
    /\ UNCHANGED <<docVars, genVars, templates, ghost, svcVars>>

\* _chunk_fixed_size: the loop ends and the chunks are returned
FixedSizeReturn ==
    /\ chunker.pc = "loop"
    /\ chunker.start >= Len(chunker.text)
    /\ chunker' = [chunker EXCEPT !.pc = "done"]
    /\ UNCHANGED <<docVars, genVars, templates, ghost, svcVars>>

ChunkNext ==
    \/ \E chunk_size, chunk_overlap \in ChunkArgs : TextChunker(chunk_size, chunk_overlap)
    \/ \E text \in Texts : ChunkFixedSize(text)
    \/ FixedSizeStep
    \/ FixedSizeReturn

ChunkSpec == FreshInit /\ [][ChunkNext]_vars

\* C10: with an effective overlap below the chunk size, _chunk_fixed_size
\* terminates on every text, and the chunk_index values of the chunks it
\* returns are 0, 1, ..., n-1.
C10_FixedSizeTerminates ==
    chunker.chunk_overlap < chunker.chunk_size =>
        /\ chunker.pc # "diverged"
        /\ chunker.pc = "done" =>
             \A k \in 1..Len(chunker.chunks) : chunker.chunks[k].chunk_index = k - 1

----------------------------------------------------------------------------
(* TextChunker.chunk_text: the three strategies, one call per step *)

\* the texts given to the sentence strategy: a letter, a full stop, a space
SentenceTexts == UNION {[1..n -> {"a", ".", " "}] : n \in 0..MaxSentenceLen}

\* the texts given to the paragraph strategy: a letter, a space, a newline
ParagraphTexts == UNION {[1..n -> {"a", " ", "\n"}] : n \in 0..MaxParagraphLen}

\* the first position from i on that holds no whitespace, Len(text) + 1 if none
SkipWhitespace(text, i) ==
    LET solid == {j \in i..Len(text) : text[j] \notin Whitespace}
    IN  IF solid = {} THEN Len(text) + 1
        ELSE CHOOSE j \in solid : \A k \in solid : j <= k

\* re.split(r'(?<=[.!?])\s+', text) from position i on, piece being the
\* characters of the sentence read so far: a run of whitespace that follows
\* a full stop, an exclamation mark or a question mark ends the sentence
RECURSIVE split_sentences(_, _, _)
split_sentences(text, i, piece) ==
    IF i > Len(text) THEN <<piece>>
    ELSE IF /\ text[i] \in Whitespace
            /\ i > 1
            /\ text[i - 1] \in {".", "!", "?"}
    THEN <<piece>> \o split_sentences(text, SkipWhitespace(text, i), <<>>)
    ELSE split_sentences(text, i + 1, Append(piece, text[i]))

\* the last newline of the run of whitespace that follows the newline at i,
\* 0 if the run holds none: where a match of \n\s*\n that begins at i ends
LastNewline(text, i) ==
    LET run == (i + 1)..(SkipWhitespace(text, i + 1) - 1)
        newlines == {j \in run : text[j] = "\n"}
    IN  IF newlines = {} THEN 0
        ELSE CHOOSE j \in newlines : \A k \in newlines : k <= j

\* re.split(r'\n\s*\n', text) from position i on
RECURSIVE split_paragraphs(_, _, _)
split_paragraphs(text, i, piece) ==
    IF i > Len(text) THEN <<piece>>
    ELSE IF text[i] = "\n" /\ LastNewline(text, i) # 0
    THEN <<piece>> \o split_paragraphs(text, LastNewline(text, i) + 1, <<>>)
    ELSE split_paragraphs(text, i + 1, Append(piece, text[i]))

\* ' '.join(list)
RECURSIVE join(_)
join(list) ==
    IF list = <<>> THEN <<>>
    ELSE IF Len(list) = 1 THEN list[1]
    ELSE list[1] \o <<" ">> \o join(Tail(list))

\* _chunk_fixed_size run to its end: the chunker when the loop has ended
\* (pc "done") or can be shown never to end (pc "diverged")
RECURSIVE fixed_size_loop(_)
fixed_size_loop(c) ==
    IF c.pc = "diverged" THEN c
    ELSE IF c.start >= Len(c.text) THEN [c EXCEPT !.pc = "done"]
    ELSE fixed_size_loop(AfterIteration(c))

\* _chunk_fixed_size(text) of a chunker with these sizes
chunk_fixed_size(chunk_size, chunk_overlap, text) ==
    LET c == fixed_size_loop([NoChunker EXCEPT !.pc = "loop", !.text = text,
                                !.chunk_size = chunk_size,
                                !.chunk_overlap = chunk_overlap])
    IN  [outcome |-> IF c.pc = "done" THEN "returned" ELSE "diverged",
         chunks |-> c.chunks]

\* the chunk made of the sentences of current_chunk
SentenceChunk(current_chunk, chunk_index) ==
    [content |-> join(current_chunk), chunk_index |-> chunk_index,
     sentences |-> current_chunk]

\* _chunk_by_sentence: the loop over the sentences, then the final chunk.
\* st holds chunks, current_chunk, current_length and chunk_index.
RECURSIVE sentence_loop(_, _, _, _)
sentence_loop(sentences, st, chunk_size, chunk_overlap) ==
    IF sentences = <<>>
    THEN IF st.current_chunk # <<>>
         THEN Append(st.chunks, SentenceChunk(st.current_chunk, st.chunk_index))
         ELSE st.chunks
    ELSE LET sentence == Head(sentences)
             sentence_length == Len(sentence)
             closed == [st EXCEPT
                 !.chunks = Append(@, SentenceChunk(st.current_chunk, st.chunk_index)),
                 !.chunk_index = @ + 1]
             last == st.current_chunk[Len(st.current_chunk)]
         IN  IF st.current_length + sentence_length > chunk_size /\ st.current_chunk # <<>>
             THEN IF chunk_overlap > 0 /\ Len(st.current_chunk) > 1
                  THEN sentence_loop(Tail(sentences),
                          [closed EXCEPT !.current_chunk = <<last, sentence>>,
                                         !.current_length = Len(last) + sentence_length],
                          chunk_size, chunk_overlap)
                  ELSE sentence_loop(Tail(sentences),
                          [closed EXCEPT !.current_chunk = <<sentence>>,
                                         !.current_length = sentence_length],
                          chunk_size, chunk_overlap)
             ELSE sentence_loop(Tail(sentences),
                     [st EXCEPT !.current_chunk = Append(@, sentence),
                                !.current_length = @ + sentence_length],
                     chunk_size, chunk_overlap)

\* _chunk_by_sentence(text) of a chunker with these sizes
chunk_by_sentence(chunk_size, chunk_overlap, text) ==
    [outcome |-> "returned",
     chunks |-> sentence_loop(split_sentences(text, 1, <<>>),
                    [chunks |-> <<>>, current_chunk |-> <<>>, current_length |-> 0,
                     chunk_index |-> 0],
                    chunk_size, chunk_overlap)]

\* the chunks of a paragraph given to _chunk_fixed_size, were they to keep the
\* chunk_index that _chunk_fixed_size gave them
Reindexed_Kept(sub_chunks, chunk_index) == sub_chunks

\* sub_chunk["chunk_index"] = chunk_index; chunk_index += 1
Reindexed(sub_chunks, chunk_index) ==
    [k \in 1..Len(sub_chunks) |->
        [sub_chunks[k] EXCEPT !.chunk_index = chunk_index + k - 1]]

\* _chunk_by_paragraph: the loop over the paragraphs; a paragraph longer than
\* 1.5 times chunk_size goes to _chunk_fixed_size, which may never return
RECURSIVE paragraph_loop(_, _, _, _, _)
paragraph_loop(paragraphs, chunks, chunk_index, chunk_size, chunk_overlap) ==
    IF paragraphs = <<>> THEN [outcome |-> "returned", chunks |-> chunks]
    ELSE LET paragraph == strip(Head(paragraphs))
             sub == chunk_fixed_size(chunk_size, chunk_overlap, paragraph)
         IN  IF paragraph = <<>>
             THEN paragraph_loop(Tail(paragraphs), chunks, chunk_index,
                                 chunk_size, chunk_overlap)
             ELSE IF 2 * Len(paragraph) > 3 * chunk_size
             THEN IF sub.outcome = "diverged"
                  THEN [outcome |-> "diverged", chunks |-> chunks]
                  ELSE paragraph_loop(Tail(paragraphs),
                          chunks \o Reindexed(sub.chunks, chunk_index),
                          chunk_index + Len(sub.chunks), chunk_size, chunk_overlap)
             ELSE paragraph_loop(Tail(paragraphs),
                     Append(chunks, [content |-> paragraph, chunk_index |-> chunk_index]),
                     chunk_index + 1, chunk_size, chunk_overlap)

\* _chunk_by_paragraph(text) of a chunker with these sizes
chunk_by_paragraph(chunk_size, chunk_overlap, text) ==
    paragraph_loop(split_paragraphs(text, 1, <<>>), <<>>, 0, chunk_size, chunk_overlap)

\* chunk_text(text, method=method) on a TextChunker(chunk_size, chunk_overlap)
chunk_text(method, chunk_size, chunk_overlap, text) ==
    LET size == Or(chunk_size, DefaultChunkSize)
        overlap == Or(chunk_overlap, DefaultChunkOverlap)
    IN  IF method = "fixed" THEN chunk_fixed_size(size, overlap, text)
        ELSE IF method = "sentence" THEN chunk_by_sentence(size, overlap, text)
        ELSE chunk_by_paragraph(size, overlap, text)

\* a chunker is built and chunk_text is called on it once
ChunkText(method, chunk_size, chunk_overlap, text) ==
    /\ call = NoCall
    /\ LET result == chunk_text(method, chunk_size, chunk_overlap, text)
       IN call' = [fn |-> "chunk_text", method |-> method,
                   chunk_size |-> Or(chunk_size, DefaultChunkSize),
                   chunk_overlap |-> Or(chunk_overlap, DefaultChunkOverlap),
                   text |-> text, outcome |-> result.outcome, chunks |-> result.chunks]
    /\ UNCHANGED <<docVars, genVars, templates, ghost, chunker, pages, stream>>

StrategyNext ==
    /\ call = NoCall
    /\ \E chunk_size, chunk_overlap \in ChunkArgs :
        \/ \E text \in Texts : ChunkText("fixed", chunk_size, chunk_overlap, text)
        \/ \E text \in SentenceTexts : ChunkText("sentence", chunk_size, chunk_overlap, text)
        \/ \E text \in ParagraphTexts : ChunkText("paragraph", chunk_size, chunk_overlap, text)

StrategySpec == FreshInit /\ [][StrategyNext]_vars

----------------------------------------------------------------------------
(* Vector ids: "doc_{document_id}_chunk_{idx}" *)

\* the decimal digits
Digits == <<"0", "1", "2", "3", "4", "5", "6", "7", "8", "9">>

\* Python's str(n) of an int, as the sequence of its characters
RECURSIVE str(_)
str(n) ==
    IF n < 0 THEN <<"-">> \o str(0 - n)
    ELSE IF n < 10 THEN <<Digits[n + 1]>>
    ELSE str(n \div 10) \o <<Digits[(n % 10) + 1]>>

\* _process_and_embed: vector_id = f"doc_{document.id}_chunk_{idx}"
vector_id(document_id, idx) ==
    <<"d", "o", "c", "_">> \o str(document_id)
        \o <<"_", "c", "h", "u", "n", "k", "_">> \o str(idx)

\* str.split("_"): the fields between the underscores
RECURSIVE split(_)
split(chars) ==
    LET seps == {k \in 1..Len(chars) : chars[k] = "_"}
    IN  IF seps = {} THEN <<chars>>
        ELSE LET k == CHOOSE i \in seps : \A j \in seps : i <= j
             IN  <<SubSeq(chars, 1, k - 1)>> \o split(SubSeq(chars, k + 1, Len(chars)))

\* the number a sequence of decimal digits denotes
RECURSIVE DigitsValue(_)
DigitsValue(ds) ==
    IF ds = <<>> THEN 0
    ELSE 10 * DigitsValue(SubSeq(ds, 1, Len(ds) - 1))
            + ((CHOOSE k \in 1..10 : Digits[k] = ds[Len(ds)]) - 1)

\* a call that raised (IndexError, ValueError)
Raised == [ok |-> FALSE, value |-> 0]

\* Python's int(chars): surrounding blanks stripped, an optional sign, then
\* decimal digits; anything else raises ValueError
int(chars) ==
    LET stripped == strip(chars)
        signed == stripped # <<>> /\ stripped[1] \in {"-", "+"}
        body == IF signed THEN Tail(stripped) ELSE stripped
        digits == {Digits[k] : k \in 1..10}
    IN  IF body = <<>> \/ \E k \in 1..Len(body) : body[k] \notin digits
        THEN Raised
        ELSE [ok |-> TRUE,
              value |-> IF signed /\ stripped[1] = "-" THEN 0 - DigitsValue(body)
                        ELSE DigitsValue(body)]

\* int(chunk_id.split("_")[1]), were it to read the last field
parse_document_id_Last(chunk_id) ==
    LET fields == split(chunk_id)
    IN  IF Len(fields) < 2 THEN Raised ELSE int(fields[Len(fields)])

\* retrieval and document selection: doc_id = int(chunk_id.split("_")[1]);
\* IndexError without a second field, ValueError if it is no number
parse_document_id(chunk_id) ==
    LET fields == split(chunk_id)
    IN  IF Len(fields) < 2 THEN Raised ELSE int(fields[2])

\* a vector id is built for chunk idx of a document and read back
BuildVectorId(document_id, idx) ==
    /\ call = NoCall
    /\ call' = [fn |-> "vector_id", document_id |-> document_id, idx |-> idx,
                chunk_id |-> vector_id(document_id, idx),
                parsed |-> parse_document_id(vector_id(document_id, idx))]
    /\ UNCHANGED <<docVars, genVars, templates, ghost, chunker, pages, stream>>

\* the ids and chunk numbers vector ids are built for
VectorIdNext ==
    \E document_id \in 1..MaxDocumentId, idx \in 0..MaxChunkIdx :
        BuildVectorId(document_id, idx)

VectorIdSpec == FreshInit /\ [][VectorIdNext]_vars

----------------------------------------------------------------------------
(* RetrievalService and DocumentSelectorService: calls over a filled store *)

\* an id no row of the documents table has
UnknownDocumentId == Cardinality(DocIds) + 1

\* the matches a response of the vector index is made of: id and score. The
\* index outlives the rows (dangling ids) and holds ids of other formats.
MatchPool ==
    {[id |-> vector_id(1, 0), score |-> 1],
     [id |-> vector_id(1, 1), score |-> 3],
     [id |-> vector_id(2, 0), score |-> 2],
     [id |-> vector_id(UnknownDocumentId, 0), score |-> 3],
     [id |-> <<"d", "o", "c">>, score |-> 2],
     [id |-> <<"d", "o", "c", "_", "x", "_", "0">>, score |-> 3]}

\* pinecone_response["matches"]: the responses of at most MaxMatches matches,
\* in the order of the index
Responses == UNION {[1..n -> MatchPool] : n \in 0..MaxMatches}

\* db.query(Document).filter(Document.id == doc_id).first() finds a row
Stored(doc_id) == doc_id \in DocIds /\ DocExists(doc_id)

\* the elements of a list
Range(seq) == {seq[k] : k \in 1..Len(seq)}

\* RetrievalService.query, were it to skip the lookup of the document
query_results_NoLookup(matches) ==
    LET Parsed(m) == parse_document_id(m.id).ok
        kept == SelectSeq(matches, Parsed)
    IN  [k \in 1..Len(kept) |->
            [document_id |-> parse_document_id(kept[k].id).value,
             chunk_id |-> kept[k].id, score |-> kept[k].score]]

\* RetrievalService.query: the loop over the matches
RECURSIVE query_results(_)
query_results(matches) ==
    IF matches = <<>> THEN <<>>
    ELSE LET match == Head(matches)
             doc_id == parse_document_id(match.id)
             rest == query_results(Tail(matches))
         IN  IF ~doc_id.ok THEN rest              \* except (IndexError, ValueError): continue
             ELSE IF ~Stored(doc_id.value) THEN rest    \* if not document: continue
             ELSE <<[document_id |-> doc_id.value, chunk_id |-> match.id,
                     score |-> match.score]>> \o rest

\* RetrievalService.query on a response of the vector index
Query(matches) ==
    /\ call = NoCall
    /\ LET results == query_results(matches)
       IN call' = [fn |-> "query", matches |-> matches, results |-> results,
                   total_results |-> Len(results)]
    /\ UNCHANGED <<docVars, genVars, templates, ghost, chunker, pages, stream>>

\* a store that ingestion has filled, no job, no call made
ServiceInit ==
    /\ \E stored \in [DocIds -> StoredDocs] :
        /\ documents = [d \in DocIds |-> stored[d].row]
        /\ index = [d \in DocIds |-> stored[d].vectors]
    /\ ing = [d \in DocIds |-> IdleIngest]
    /\ del = [d \in DocIds |-> "idle"]
    /\ job = NoJob
    /\ task = NoTask
    /\ contents = {}
    /\ links = {}
    /\ templates = [default |-> Template(MaxSections), byId |-> [t \in {1} |-> Template(1)]]
    /\ lastStart = [result |-> "none", ids |-> {}]
    /\ ghost = NoGhost
    /\ chunker = NoChunker
    /\ pages = {}
    /\ call = NoCall
    /\ stream = NoStream

QueryNext ==
    /\ call = NoCall
    /\ \E matches \in Responses : Query(matches)

QuerySpec == ServiceInit /\ [][QueryNext]_vars

\* the matches whose id parses to an integer document id
ParsedMatches(matches) ==
    LET Parsed(m) == parse_document_id(m.id).ok
    IN  SelectSeq(matches, Parsed)

\* the matches of one document id
MatchesOf(matches, doc_id) ==
    LET Mine(m) == parse_document_id(m.id).value = doc_id
    IN  SelectSeq(ParsedMatches(matches), Mine)

Max(S) == CHOOSE x \in S : \A y \in S : y <= x

\* doc_scores, were the score of a document that of its last match
doc_scores_Last(matches) ==
    LET parsed == ParsedMatches(matches)
        ids == {parse_document_id(parsed[k].id).value : k \in 1..Len(parsed)}
    IN  [doc_id \in ids |->
            MatchesOf(matches, doc_id)[Len(MatchesOf(matches, doc_id))].score]

\* doc_scores: document id -> the highest score among its matches
doc_scores(matches) ==
    LET parsed == ParsedMatches(matches)
        ids == {parse_document_id(parsed[k].id).value : k \in 1..Len(parsed)}
    IN  [doc_id \in ids |->
            Max({MatchesOf(matches, doc_id)[k].score :
                    k \in 1..Len(MatchesOf(matches, doc_id))})]

\* doc_chunks: document id -> the number of its matches
doc_chunks(matches) ==
    [doc_id \in DOMAIN doc_scores(matches) |-> Len(MatchesOf(matches, doc_id))]

\* the orders in which a query without ORDER BY can return the rows of a set
Orders(S) ==
    {order \in [1..Cardinality(S) -> S] :
        \A i, j \in 1..Cardinality(S) : order[i] = order[j] => i = j}

\* the rows of db.query(Document).filter(Document.id.in_(document_ids),
\* Document.status == "completed")
CompletedAmong(ids) ==
    {doc_id \in ids : Stored(doc_id) /\ documents[doc_id].status = "completed"}

\* list.sort(key=relevance_score, reverse=True): stable, highest score first
RECURSIVE sort_by_relevance(_)
sort_by_relevance(docs) ==
    IF docs = <<>> THEN <<>>
    ELSE LET doc == Head(docs)
             rest == sort_by_relevance(Tail(docs))
             Above(x) == x.relevance_score > doc.relevance_score
             NotAbove(x) == ~Above(x)
         IN  SelectSeq(rest, Above) \o <<doc>> \o SelectSeq(rest, NotAbove)

\* the list built from the rows, in the order of the rows
suggested_docs_built(matches, rows) ==
    [k \in 1..Len(rows) |->
        [document_id |-> rows[k],
         relevance_score |-> doc_scores(matches)[rows[k]],
         chunk_count |-> doc_chunks(matches)[rows[k]],
         total_chunks |-> documents[rows[k]].chunk_count]]

\* suggest_documents, were the list left in the order of the rows
suggested_docs_Unsorted(matches, max_documents, rows) ==
    Slice(suggested_docs_built(matches, rows), 0, max_documents)

\* suggest_documents: the list sorted and cut to max_documents; the
\* explanations added afterwards change neither its order nor its length
suggested_docs(matches, max_documents, rows) ==
    Slice(sort_by_relevance(suggested_docs_built(matches, rows)), 0, max_documents)

\* DocumentSelectorService.suggest_documents on a response of the vector index
\* to a query with top_k = max_documents * 3
SuggestDocuments(matches, max_documents, rows) ==
    /\ call = NoCall
    /\ Len(matches) <= max_documents * 3
    /\ rows \in Orders(CompletedAmong(DOMAIN doc_scores(matches)))
    /\ call' = [fn |-> "suggest_documents", matches |-> matches,
                max_documents |-> max_documents, rows |-> rows,
                result |-> IF DOMAIN doc_scores(matches) = {} THEN <<>>
                           ELSE suggested_docs(matches, max_documents, rows)]
    /\ UNCHANGED <<docVars, genVars, templates, ghost, chunker, pages, stream>>

\* one call is followed per behaviour: the service keeps no state between calls
SuggestNext ==
    /\ call = NoCall
    /\ \E matches \in Responses, max_documents \in 1..MaxDocuments :
        \E rows \in Orders(CompletedAmong(DOMAIN doc_scores(matches))) :
            SuggestDocuments(matches, max_documents, rows)

SuggestSpec == ServiceInit /\ [][SuggestNext]_vars

\* the lists of document ids a caller passes, repeated ids included
IdLists == UNION {[1..n -> DocIds] : n \in 0..MaxIds}

\* list.sort(key=score, reverse=True): stable, highest score first
RECURSIVE sort_by_score(_)
sort_by_score(chunks) ==
    IF chunks = <<>> THEN <<>>
    ELSE LET chunk == Head(chunks)
             rest == sort_by_score(Tail(chunks))
             Above(x) == x.score > chunk.score
             NotAbove(x) == ~Above(x)
         IN  SelectSeq(rest, Above) \o <<chunk>> \o SelectSeq(rest, NotAbove)

\* the text of a match is identified by the id of its chunk
texts(chunks) == [k \in 1..Len(chunks) |-> chunks[k].id]

\* the keys of get_document_context's result: the requested ids that a match
\* parses to
context_keys(document_ids, matches) ==
    DOMAIN doc_scores(matches) \cap Range(document_ids)

\* get_document_context, were the lists of chunks left uncut
document_context_Uncut(document_ids, max_chunks_per_doc, matches) ==
    [doc_id \in context_keys(document_ids, matches) |->
        texts(sort_by_score(MatchesOf(matches, doc_id)))]

\* get_document_context: per requested document the texts of its matches,
\* highest score first, cut to max_chunks_per_doc
document_context(document_ids, max_chunks_per_doc, matches) ==
    [doc_id \in context_keys(document_ids, matches) |->
        texts(Slice(sort_by_score(MatchesOf(matches, doc_id)), 0, max_chunks_per_doc))]

\* DocumentSelectorService.get_document_context on a response of the vector
\* index to a query with top_k = max_chunks_per_doc * len(document_ids); no
\* query is made for an empty list
GetDocumentContext(document_ids, max_chunks_per_doc, matches) ==
    /\ call = NoCall
    /\ Len(matches) <= max_chunks_per_doc * Len(document_ids)
    /\ call' = [fn |-> "get_document_context", document_ids |-> document_ids,
                max_chunks_per_doc |-> max_chunks_per_doc, matches |-> matches,
                result |-> IF document_ids = <<>> THEN [doc_id \in {} |-> <<>>]
                           ELSE document_context(document_ids, max_chunks_per_doc, matches)]
    /\ UNCHANGED <<docVars, genVars, templates, ghost, chunker, pages, stream>>

ContextNext ==
    /\ call = NoCall
    /\ \E document_ids \in IdLists, max_chunks_per_doc \in 0..MaxChunksPerDoc,
          matches \in Responses :
            GetDocumentContext(document_ids, max_chunks_per_doc, matches)

ContextSpec == FreshInit /\ [][ContextNext]_vars

\* validate_document_ids, were a completed row accepted whatever its chunk_count
valid_docs_NoChunkCheck(rows) ==
    LET Ready(doc_id) == documents[doc_id].status = "completed"
    IN  SelectSeq(rows, Ready)

\* valid_docs: the rows found that are completed and have chunks, in the
\* order of the rows
valid_docs(rows) ==
    LET Ready(doc_id) == /\ documents[doc_id].status = "completed"
                         /\ documents[doc_id].chunk_count > 0
    IN  SelectSeq(rows, Ready)

\* invalid_docs: the ids passed that are not in valid_docs, in the order passed
invalid_docs(document_ids, valid) ==
    LET Rejected(doc_id) == doc_id \notin Range(valid)
    IN  SelectSeq(document_ids, Rejected)

\* doc_info: the valid ids with the chunk_count of their row
doc_info(valid) ==
    [doc_id \in Range(valid) |-> [id |-> doc_id, chunk_count |-> documents[doc_id].chunk_count]]

\* DocumentSelectorService.validate_document_ids; rows is the answer of
\* db.query(Document).filter(Document.id.in_(document_ids)).all(), which is not
\* asked for an empty list
ValidateDocumentIds(document_ids, rows) ==
    /\ call = NoCall
    /\ rows \in Orders({doc_id \in Range(document_ids) : Stored(doc_id)})
    /\ call' = [fn |-> "validate_document_ids", document_ids |-> document_ids,
                valid |-> IF document_ids = <<>> THEN <<>> ELSE valid_docs(rows),
                invalid |-> IF document_ids = <<>> THEN <<>>
                            ELSE invalid_docs(document_ids, valid_docs(rows)),
                documents |-> IF document_ids = <<>> THEN [doc_id \in {} |-> <<>>]
                              ELSE doc_info(valid_docs(rows))]
    /\ UNCHANGED <<docVars, genVars, templates, ghost, chunker, pages, stream>>

ValidateNext ==
    /\ call = NoCall
    /\ \E document_ids \in IdLists :
        \E rows \in Orders({doc_id \in Range(document_ids) : Stored(doc_id)}) :
            ValidateDocumentIds(document_ids, rows)

ValidateSpec == ServiceInit /\ [][ValidateNext]_vars

----------------------------------------------------------------------------
(* GET /jobs/{job_id}/stream: event_generator *)

\* what one call of get_job_status gives the generator: no job (None), an
\* exception, or the status of the job
JobReads ==
    {[kind |-> "None"], [kind |-> "raise"]}
    \cup {[kind |-> "status", status |-> st[1], progress_percent |-> st[2]] :
            st \in {<<"pending", 0>>, <<"processing", 10>>, <<"processing", 50>>,
                    <<"completed", 100>>, <<"failed", 50>>}}

\* the client connects: last_status = None, the loop has not run
StreamOpen ==
    /\ stream.pc = "none"
    /\ stream' = [stream EXCEPT !.pc = "poll"]
    /\ UNCHANGED <<docVars, genVars, templates, ghost, chunker, pages, call>>

\* where the generator is after one round of the loop that did not break:
\* range(MaxPolls) is used up after MaxPolls rounds
AfterSleep(polls) == IF polls < MaxPolls THEN "poll" ELSE "final"

\* one round of the loop, were the except branch to return from the generator
StreamPoll_Return(read) ==
    /\ stream.pc = "poll"
    /\ stream.polls < MaxPolls
    /\ stream' =
        IF read.kind = "raise"
        THEN [stream EXCEPT !.polls = @ + 1, !.last = "error", !.pc = "closed"]
        ELSE IF read.kind = "None"
        THEN [stream EXCEPT !.polls = @ + 1, !.last = "error", !.pc = "final"]
        ELSE [stream EXCEPT
                !.polls = @ + 1,
                !.last = IF read # stream.last_status THEN "status" ELSE @,
                !.last_status = read,
                !.pc = IF read.status \in {"completed", "failed"} THEN "final"
                       ELSE AfterSleep(stream.polls + 1)]
    /\ UNCHANGED <<docVars, genVars, templates, ghost, chunker, pages, call>>

\* one round of the loop: read the status; no job or an exception yields an
\* error event and breaks; a status that changed is yielded; a terminal status
\* breaks; otherwise sleep a second
StreamPoll(read) ==
    /\ stream.pc = "poll"
    /\ stream.polls < MaxPolls
    /\ stream' =
        IF read.kind \in {"raise", "None"}
        THEN [stream EXCEPT !.polls = @ + 1, !.last = "error", !.pc = "final"]
        ELSE [stream EXCEPT
                !.polls = @ + 1,
                !.last = IF read # stream.last_status THEN "status" ELSE @,
                !.last_status = read,
                !.pc = IF read.status \in {"completed", "failed"} THEN "final"
                       ELSE AfterSleep(stream.polls + 1)]
    /\ UNCHANGED <<docVars, genVars, templates, ghost, chunker, pages, call>>

\* after the loop: yield the done event, the generator returns
StreamDone ==
    /\ stream.pc = "final"
    /\ stream' = [stream EXCEPT !.pc = "closed", !.last = "done", !.dones = @ + 1]
    /\ UNCHANGED <<docVars, genVars, templates, ghost, chunker, pages, call>>

StreamNext ==
    \/ StreamOpen
    \/ \E read \in JobReads : StreamPoll(read)
    \/ StreamDone

StreamSpec == FreshInit /\ [][StreamNext]_vars

----------------------------------------------------------------------------
(* _generate_content: the progress of the section loop *)

\* one round of the loop over a template of total sections: the progress
\* passed to _update_job_status before section i is generated
ReportSectionProgress(i, total) ==
    /\ call = NoCall
    /\ call' = [fn |-> "section_progress", i |-> i, total |-> total,
                progress |-> SectionProgress(i, total)]
    /\ UNCHANGED <<docVars, genVars, templates, ghost, chunker, pages, stream>>

ProgressNext ==
    /\ call = NoCall
    /\ \E total \in 1..MaxTotalSections :
        \E i \in 0..(total - 1) : ReportSectionProgress(i, total)

ProgressSpec == FreshInit /\ [][ProgressNext]_vars

----------------------------------------------------------------------------
(* Generation job: properties *)

\* C1: the job's stored progress_percent never decreases from one status
\* update to the next, on the success path and on every failure path.
C1_ProgressNeverDecreases ==
    [][job'.progress_percent >= job.progress_percent]_vars

\* C2: progress_percent is 100 exactly when the status is "completed".
C2_HundredIffCompleted ==
    (job.progress_percent = 100) <=> (job.status = "completed")

\* C2 witness: the job has completed.
C2_Witness == job.status = "completed" /\ job.progress_percent = 100

\* the status changes the job state machine allows
StatusStep(a, b) ==
    \/ a = b
    \/ <<a, b>> \in {<<"none", "pending">>, <<"pending", "processing">>,
                     <<"processing", "completed">>, <<"processing", "failed">>}

\* C3: the status moves only along pending -> processing -> completed | failed,
\* and a completed or failed job keeps its status, result_id and error_message.
C3_StatusPath ==
    [][/\ StatusStep(job.status, job'.status)
       /\ job.status \in {"completed", "failed"} =>
            /\ job'.status = job.status
            /\ job'.result_id = job.result_id
            /\ job'.error_message = job.error_message]_vars

\* C4: a job submitted without a model and without a template_id, whose content
\* type has a default template, whose documents stay in the store and none of
\* whose calls fails, ends completed (having been processing) with a content
\* that has the template's sections in the template's order.
C4_DefaultRunCompletes ==
    (/\ task.pc = "done"
     /\ task.llm_model = None
     /\ task.template_id = 0
     /\ templates.default.found
     /\ ~ghost.fault
     /\ \A d \in task.document_ids : DocExists(d))
    => /\ job.status = "completed"
       /\ job.started_at
       /\ \E c \in contents :
            c.id = job.result_id /\ c.sections = templates.default.sections

\* C5: a workflow that raised at any step ends with the job failed, completed_at
\* set and a non-empty error_message.
C5_FailureRecorded ==
    (task.pc = "done" /\ ghost.raised)
    => /\ job.status = "failed"
       /\ job.completed_at
       /\ job.error_message # ""

\* C6: a completed job's result_id is the id of a stored GeneratedContent row.
C6_CompletedHasResult ==
    job.status = "completed" => \E c \in contents : c.id = job.result_id

\* C6 witness: a job completed although a call failed on the way.
C6_Witness == job.status = "completed" /\ ghost.fault

\* C7: ingestion never leaves a document partially committed: a completed
\* document's vector_ids are all in the index and chunk_count is their number;
\* an error document has no vector_ids.
C7_NoPartialCommit ==
    \A d \in DocIds :
        /\ documents[d].status = "completed" =>
            /\ documents[d].vector_ids \subseteq index[d]
            /\ documents[d].chunk_count = Cardinality(documents[d].vector_ids)
        /\ documents[d].status = "error" => documents[d].vector_ids = {}

\* C7 witness: a document in error after its first upsert batch went through,
\* beside one completed over more than one batch.
C7_Witness ==
    \E d, e \in DocIds :
        /\ documents[d].status = "error"
        /\ index[d] = VectorIds(0, BatchSize)
        /\ documents[e].status = "completed"
        /\ documents[e].chunk_count = BatchSize + 1

\* the ids of a list that validate_document_ids has to accept
Acceptable(ids) ==
    {d \in ids : /\ documents[d].status = "completed"
                 /\ documents[d].chunk_count > 0}

\* C8: start_generation with a list that holds no valid id raises ValueError,
\* creates no job row and starts no task.
C8_NoJobWithoutValidDocument ==
    [][/\ (job.status = "none" /\ job'.status # "none") =>
            Acceptable(lastStart'.ids) # {}
       /\ (task.pc = "none" /\ task'.pc # "none") =>
            Acceptable(lastStart'.ids) # {}
       /\ (lastStart' # lastStart /\ Acceptable(lastStart'.ids) = {}) =>
            /\ lastStart'.result = "ValueError"
            /\ job' = job
            /\ task' = task]_vars

\* C8 witness: a list of ids, none of them valid, was rejected.
C8_Witness ==
    /\ lastStart.result = "ValueError"
    /\ lastStart.ids = DocIds
    /\ job.status = "none"

\* C9: every document of the job's selected set, of its gathered context and of
\* its source links exists with status "completed".
C9_JobDocumentsCompleted ==
    \A d \in job.selected_document_ids \cup task.context \cup {l[2] : l \in links} :
        DocExists(d) /\ documents[d].status = "completed"

----------------------------------------------------------------------------
(* Ingestion of stored content, vector ids, retrieval, selection: properties *)

\* C11: a process_pdf / process_url request for content whose hash a stored
\* Document has, whatever the status of that row and whatever skip_existing,
\* inserts and changes no row, upserts and deletes no vector, and returns the
\* stored row (or raises, if the extraction itself raised).
C11_ReingestIsIdempotent ==
    [][\A d \in DocIds :
         (/\ DocExists(d)
          /\ ing[d].pc \in {"idle", "done", "existing"}
          /\ ing'[d] # ing[d])
         => /\ documents' = documents
            /\ index' = index
            /\ ing'[d].pc \in {"existing", "done"}]_vars

\* C11 witness: requests have returned the stored row of a document in error
\* and that of a completed one.
C11_Witness ==
    \E d, e \in DocIds :
        /\ ing[d].pc = "existing" /\ documents[d].status = "error"
        /\ ing[e].pc = "existing" /\ documents[e].status = "completed"

\* C12: the vector id ingestion builds for chunk idx of document D parses
\* back, by the second-field parsing of retrieval and selection, to D.
C12_VectorIdRoundTrip ==
    call.fn = "vector_id" => call.parsed.ok /\ call.parsed.value = call.document_id

\* C12 witness: an id with a two-digit document id and a two-digit chunk number
\* was built and read back.
C12_Witness ==
    call.fn = "vector_id" /\ call.document_id >= 10 /\ call.idx >= 10

\* the matches whose id parses to the id of a stored document
Surfaced(matches) ==
    LET Good(m) == /\ parse_document_id(m.id).ok
                   /\ Stored(parse_document_id(m.id).value)
    IN  SelectSeq(matches, Good)

\* C13: RetrievalService.query returns exactly the matches whose id parses to
\* the id of a stored document, in the order of the index, skips the others,
\* and total_results is the number of results returned.
C13_QuerySkipsDangling ==
    call.fn = "query" =>
        /\ Len(call.results) = Len(Surfaced(call.matches))
        /\ \A k \in 1..Len(call.results) :
            /\ call.results[k].chunk_id = Surfaced(call.matches)[k].id
            /\ call.results[k].score = Surfaced(call.matches)[k].score
            /\ <<"d", "o", "c", "_">> \o str(call.results[k].document_id) \o <<"_">>
                 = SubSeq(call.results[k].chunk_id, 1,
                          Len(str(call.results[k].document_id)) + 5)
            /\ DocExists(call.results[k].document_id)
        /\ call.total_results = Len(call.results)

\* C13 witness: a response with an unparsable id, a dangling id and the id of
\* a stored document gave one result.
C13_Witness ==
    /\ call.fn = "query"
    /\ Len(call.matches) = 3
    /\ ~parse_document_id(call.matches[1].id).ok
    /\ parse_document_id(call.matches[2].id).ok
    /\ ~Stored(parse_document_id(call.matches[2].id).value)
    /\ Len(call.results) = 1

\* C14: suggest_documents with max_documents >= 1 returns at most max_documents
\* entries, sorted by relevance_score in descending order.
C14_SuggestSortedAndBounded ==
    call.fn = "suggest_documents" =>
        /\ Len(call.result) <= call.max_documents
        /\ \A i, j \in 1..Len(call.result) :
            i < j => call.result[i].relevance_score >= call.result[j].relevance_score

\* C14 witness: the rows came back lowest score first and the list was cut, so
\* that the one entry returned is the row that came last.
C14_Witness ==
    /\ call.fn = "suggest_documents"
    /\ Len(call.rows) > call.max_documents
    /\ Len(call.result) = call.max_documents
    /\ call.result[1].document_id = call.rows[Len(call.rows)]
    /\ call.result[1].relevance_score > doc_scores(call.matches)[call.rows[1]]

\* C15: get_document_context returns at most max_chunks_per_doc chunk texts
\* under each document id, also when a document has more matches than that.
C15_ContextBounded ==
    call.fn = "get_document_context" =>
        \A doc_id \in DOMAIN call.result :
            Len(call.result[doc_id]) <= call.max_chunks_per_doc

\* C15 witness: a document with more matches than max_chunks_per_doc, returned
\* with max_chunks_per_doc texts, the one with the highest score first.
C15_Witness ==
    /\ call.fn = "get_document_context"
    /\ \E doc_id \in DOMAIN call.result :
        /\ Len(MatchesOf(call.matches, doc_id)) > call.max_chunks_per_doc
        /\ Len(call.result[doc_id]) = call.max_chunks_per_doc
        /\ call.result[doc_id][1] = vector_id(doc_id, 1)
        /\ MatchesOf(call.matches, doc_id)[1].id = vector_id(doc_id, 0)

\* C16: validate_document_ids returns as valid exactly the ids passed whose
\* document exists with status "completed" and chunk_count > 0 and as invalid
\* exactly the other ids passed; the two are disjoint and cover the input; for
\* the empty list valid, invalid and documents are empty.
C16_ValidateSplitsInput ==
    call.fn = "validate_document_ids" =>
        /\ Range(call.valid) =
            {doc_id \in Range(call.document_ids) :
                /\ DocExists(doc_id)
                /\ documents[doc_id].status = "completed"
                /\ documents[doc_id].chunk_count > 0}
        /\ Range(call.invalid) = Range(call.document_ids) \ Range(call.valid)
        /\ Range(call.valid) \cap Range(call.invalid) = {}
        /\ Range(call.valid) \cup Range(call.invalid) = Range(call.document_ids)
        /\ call.document_ids = <<>> =>
            /\ call.valid = <<>>
            /\ call.invalid = <<>>
            /\ DOMAIN call.documents = {}

\* C16 witness: of two ids passed one is valid and the other, completed with
\* no chunks, is invalid.
C16_Witness ==
    /\ call.fn = "validate_document_ids"
    /\ Len(call.valid) = 1
    /\ Len(call.invalid) = 1
    /\ documents[call.invalid[1]].status = "completed"
    /\ documents[call.invalid[1]].chunk_count = 0

\* C17: whatever the reads of the job give (no job, an exception, a terminal
\* status, never a terminal status), the progress stream polls at most 300
\* times, and once it has stopped its last event is the done marker, emitted
\* exactly once.
C17_StreamEndsWithDone ==
    /\ stream.polls <= MaxPolls
    /\ stream.pc = "poll" => stream.polls < MaxPolls
    /\ stream.pc = "closed" => stream.last = "done" /\ stream.dones = 1
    /\ stream.pc # "closed" => stream.dones = 0

\* C17 witness: the stream of a job that never became terminal, closed with the
\* done marker after 300 polls.
C17_Witness ==
    /\ stream.pc = "closed"
    /\ stream.last = "done"
    /\ stream.polls = MaxPolls
    /\ stream.last_status.kind = "status"
    /\ stream.last_status.status = "processing"

\* C18: ingesting a source not seen before publishes exactly one Confluence
\* page for it: once process_pdf / process_url has returned the completed
\* document, one page created for that document exists.
C18_IngestPublishesPage ==
    \A d \in DocIds :
        (ing[d].pc = "done" /\ documents[d].status = "completed") =>
            Cardinality({page \in pages : page.document_id = d}) = 1

\* C19: persisting the result of a job is atomic: whatever fails inside
\* _save_generated_content, the step leaves either the new GeneratedContent
\* record together with a source link for every selected document, or no new
\* record and no new link.
C19_SaveIsAtomic ==
    [][task.pc = "s95" =>
        \/ contents' = contents /\ links' = links
        \/ \E c \in contents' \ contents :
            \A d \in task.document_ids : <<c.id, d>> \in links']_vars

\* C20: at the load-template step the job fails with template-not-found only
\* if neither the explicit template_id nor the content type's default template
\* resolves: when one of the two resolves and no call fails, the job does not
\* go to its except block from this step.
C20_TemplateResolution ==
    [][(/\ task.pc = "s20"
        /\ ~ghost.fault
        /\ ~ghost'.fault
        /\ get_template(task.template_id).found \/ get_default_template.found)
       => task'.pc # "fail"]_vars

\* C21: the progress reported just before section i of total sections is
\* 30 + floor(i * 60 / total); for total >= 1 and 0 <= i < total it lies in
\* [30, 90) and does not decrease as i grows.
C21_SectionProgressLinear ==
    call.fn = "section_progress" =>
        /\ (call.progress - 30) * call.total <= call.i * 60
        /\ call.i * 60 < (call.progress - 30 + 1) * call.total
        /\ call.progress >= 30
        /\ call.progress < 90
        /\ \A j \in 0..call.i : SectionProgress(j, call.total) <= call.progress

\* C21 witness: the last of seven sections, where i * 60 / total is not a
\* whole number.
C21_Witness ==
    /\ call.fn = "section_progress"
    /\ call.total = 7
    /\ call.i = 6
    /\ call.progress = 81

\* C22: a TextChunker whose overlap is not below its chunk_size, passed or
\* taken from the defaults, is rejected or clamped: the overlap that fixed-size
\* chunking works with is below chunk_size, and every iteration of its loop
\* moves the start position forward.
C22_OverlapRejectedOrClamped ==
    [][/\ chunker'.pc # "idle" => chunker'.chunk_overlap < chunker'.chunk_size
       /\ (chunker.pc = "loop" /\ chunker'.pc \in {"loop", "diverged"}) =>
            chunker'.start > chunker.start]_vars

\* C23: for the sentence and the paragraph strategy the k-th chunk returned has
\* chunk_index k, counted from 0, also when paragraphs given to fixed-size
\* chunking are mixed with short ones.
C23_StrategyIndicesContiguous ==
    (/\ call.fn = "chunk_text"
     /\ call.method \in {"sentence", "paragraph"}
     /\ call.outcome = "returned")
    => \A k \in 1..Len(call.chunks) : call.chunks[k].chunk_index = k - 1

\* C23 witness: a short paragraph, then one that fixed-size chunking cut into
\* several chunks, the first of which has chunk_index 1.
C23_Witness ==
    /\ call.fn = "chunk_text"
    /\ call.method = "paragraph"
    /\ call.outcome = "returned"
    /\ Len(call.chunks) > 2
    /\ call.chunks[1].content = <<"a">>
    /\ "start_char" \notin DOMAIN call.chunks[1]
    /\ "start_char" \in DOMAIN call.chunks[2]
    /\ "start_char" \in DOMAIN call.chunks[3]
    /\ call.chunks[2].chunk_index = 1

\* the summed length of the sentences of a list
RECURSIVE SummedLength(_)
SummedLength(sentences) ==
    IF sentences = <<>> THEN 0
    ELSE Len(Head(sentences)) + SummedLength(Tail(sentences))

\* C24: in the sentence strategy the summed length of the sentences placed in
\* one chunk exceeds chunk_size only when the chunk is a single sentence that is
\* itself longer than chunk_size.
C24_SentenceChunkWithinSize ==
    (call.fn = "chunk_text" /\ call.method = "sentence") =>
        \A k \in 1..Len(call.chunks) :
            SummedLength(call.chunks[k].sentences) > call.chunk_size =>
                Len(call.chunks[k].sentences) = 1

\* C28: no strategy returns a chunk whose content is empty or whitespace only,
\* whatever the text, the empty and the whitespace-only text included.
C28_NoEmptyChunk ==
    (call.fn = "chunk_text" /\ call.outcome = "returned") =>
        \A k \in 1..Len(call.chunks) : strip(call.chunks[k].content) # <<>>

\* the positions of the matches that resolve to a document
Resolving(matches, doc_id) ==
    {k \in 1..Len(matches) :
        /\ parse_document_id(matches[k].id).ok
        /\ parse_document_id(matches[k].id).value = doc_id}

\* C25: suggest_documents returns each document at most once; an entry's
\* relevance_score is the highest score of the matches that resolve to its
\* document, its chunk_count is their number, and its document is completed.
C25_SuggestGroupsByDocument ==
    call.fn = "suggest_documents" =>
        /\ \A i, j \in 1..Len(call.result) :
            call.result[i].document_id = call.result[j].document_id => i = j
        /\ \A i \in 1..Len(call.result) :
            LET entry == call.result[i]
                mine == Resolving(call.matches, entry.document_id)
            IN  /\ \E k \in mine : call.matches[k].score = entry.relevance_score
                /\ \A k \in mine : call.matches[k].score <= entry.relevance_score
                /\ entry.chunk_count = Cardinality(mine)
                /\ documents[entry.document_id].status = "completed"

\* C25 witness: a document returned once for two matches, with the score of the
\* first, the higher one, while a matched document in error is left out.
C25_Witness ==
    /\ call.fn = "suggest_documents"
    /\ Len(call.result) = 1
    /\ call.result[1].chunk_count = 2
    /\ call.result[1].relevance_score > call.matches[Len(call.matches)].score
    /\ Resolving(call.matches, call.result[1].document_id) = {1, Len(call.matches)}
    /\ \E doc_id \in DocIds :
        /\ Resolving(call.matches, doc_id) # {}
        /\ documents[doc_id].status = "error"

\* C26: upsert_vectors sends the vectors in consecutive batches of at most
\* batch_size, one after another in the order of the input, until all are
\* sent; when the call for a batch fails the request ends, with no later batch
\* sent.
C26_UpsertInBatches ==
    [][\A d \in DocIds :
        /\ ~(index'[d] \subseteq index[d]) =>
            /\ ing[d].pc = "upsert"
            /\ ing'[d].pc \in {"upsert", "commit"}
            /\ ing'[d].sent > ing[d].sent
            /\ ing'[d].sent - ing[d].sent <= BatchSize
            /\ index'[d] = index[d] \cup VectorIds(ing[d].sent, ing'[d].sent)
        /\ (ing[d].pc = "upsert" /\ ing'[d] # ing[d] /\ ing'[d].pc = "upsert") =>
            /\ ing'[d].sent = ing[d].sent + BatchSize
            /\ ing'[d].sent < ing[d].n
        /\ (ing[d].pc = "upsert" /\ ing'[d].pc = "commit") => ing'[d].sent = ing[d].n
        /\ (ing[d].pc = "upsert" /\ ing'[d] # ing[d] /\ ing'[d].pc \notin {"upsert", "commit"}) =>
            /\ index'[d] = index[d]
            /\ ing'[d].pc = "done"]_vars

\* C26 witness: one request has sent its vectors in two batches, the second of
\* one vector; another has ended after its second batch failed, its first
\* batch in the index.
C26_Witness ==
    \E d, e \in DocIds :
        /\ ing[d].pc = "commit"
        /\ ing[d].sent = BatchSize + 1
        /\ VectorIds(0, BatchSize + 1) \subseteq index[d]
        /\ ing[e].pc = "done"
        /\ index[e] = VectorIds(0, BatchSize)
        /\ documents[e].status # "completed"

C30_EarlyFailureSurfaces ==
    [][\A d \in DocIds :
        (/\ ing[d].pc = "idle"
         /\ documents[d].status = "absent"
         /\ ing'[d].pc = "done"
         /\ documents'[d].status = "absent") =>
            /\ ~ing'[d].unbound
            /\ documents' = documents
            /\ index' = index]_vars

\* C29: whatever the interleaving of two requests with the same content, at most
\* one Document row with that hash is created, at most one set of vectors is
\* upserted for it, and no request fails on the row of the other: both return
\* the one record.
C29_ConcurrentSameContent ==
    /\ Cardinality({e \in DocIds : DocExists(e)}) <= 1
    /\ Cardinality({e \in DocIds : documents[e].vector_ids # {}}) <= 1
    /\ \A r \in DocIds : ing[r].pc # "conflict"

====
